---- MODULE Spec2Model ----
(***************************************************************************)
(* imapfetch: incremental fetch / partial read / deduplication engine.     *)
(*                                                                         *)
(* The model follows src/imapfetch.py: the Mailserver helper (mails,       *)
(* partials), Maildir.store, the Account context manager and the sync loop *)
(* of __main__.  A message is a sequence of bytes; a byte is a             *)
(* one-character string, with "n" for LF and "r" for CR.  The remote       *)
(* server is the environment: it holds the folders, answers UID searches   *)
(* in an order of its choosing and answers partial fetches with the bytes  *)
(* of the requested range.                                                 *)
(*                                                                         *)
(* Four specifications share the actions of the sync loop:                 *)
(*   Spec          one account, messages arriving between runs             *)
(*   SpecFaults    one account, runs interrupted by kills and exceptions   *)
(*   SpecAccounts  two accounts processed by one run                       *)
(*   SpecIdentity  one account, two messages with long or equal headers    *)
(***************************************************************************)
EXTENDS Integers, Sequences, FiniteSets, TLC

----------------------------------------------------------------------------
(* Bounds of the model *)

\* messages delivered to the server over a behaviour of Spec, all folders together
MaxMsgs == 2
\* interruptions over a behaviour of SpecFaults: kills, and failures of the
\* environment that raise an exception (archive, index, refused select,
\* unreadable response)
MaxCrashes == 1

\* chunk sizes of Mailserver.partials; the source uses 64 KiB and 1 MiB, the
\* model keeps FIRSTCHUNK < NEXTCHUNK at a scale the messages below straddle
FIRSTCHUNK == 5
NEXTCHUNK == 6

\* the first configured account (section of settings.conf) and the folders
\* of a server, in the order the server lists them
Section == "acc"
Folders == <<"INBOX", "Sent">>
FolderSet == {Folders[i] : i \in 1..Len(Folders)}

LF == "n"
CR == "r"
SP == " "
TAB == "\t"

\* messages the environment can deliver: one that fits the first chunk, one
\* with the same header that ends exactly where the third request starts, one
\* whose header terminator lies beyond the first chunk, one without a header
\* terminator, and one with a blank after the colon of its header field
MsgSmall == <<"a", ":", LF, LF>>
MsgLarge == <<"a", ":", LF, LF, "x", "y", "x", "y", "x", "y", "x", "y">>
MsgCrlf  == <<"b", ":", "x", CR, LF, CR, LF, "y">>
MsgBad   == <<"a", ":", "x", LF>>
MsgBlank == <<"a", ":", SP, LF, LF>>
Catalog == {MsgSmall, MsgLarge, MsgCrlf, MsgBad, MsgBlank}

\* the place of a UID that no message of the folder has (expunged, or never
\* assigned)
Expunged == <<"expunged">>

----------------------------------------------------------------------------
(* Sequence helpers *)

Min(a, b) == IF a < b THEN a ELSE b

SetMax(S) == CHOOSE m \in S : \A x \in S : x <= m

Range(s) == {s[i] : i \in 1..Len(s)}

\* all orders in which the elements of S can be listed
Perms(S) == {p \in [1..Cardinality(S) -> S] : \A i, j \in 1..Cardinality(S) : p[i] = p[j] => i = j}

\* fn with the value v at k, and fn without k
Put(fn, k, v) == [x \in DOMAIN fn \cup {k} |-> IF x = k THEN v ELSE fn[x]]

Remove(fn, k) == [x \in DOMAIN fn \ {k} |-> fn[x]]

----------------------------------------------------------------------------
(* Messages: header terminator, parser and generator of the email package,
   digest.  The bytes of the model are letters, the colon, SP, TAB, CR and
   LF, and no header line reaches the length at which the generator folds. *)

\* the loop condition of "get header chunk": b"\r\n\r\n" in message or b"\n\n" in message
HasTerminator(buf) ==
    \/ \E i \in 1..(Len(buf) - 1) : buf[i] = LF /\ buf[i + 1] = LF
    \/ \E i \in 1..(Len(buf) - 3) :
          buf[i] = CR /\ buf[i + 1] = LF /\ buf[i + 2] = CR /\ buf[i + 3] = LF

IsBreak(c) == c = CR \/ c = LF

IsBlank(c) == c = SP \/ c = TAB

\* length of the first line of a non-empty buffer, its line ending excluded
LineLen(buf) ==
    IF \E i \in 1..Len(buf) : IsBreak(buf[i])
    THEN (CHOOSE i \in 1..Len(buf) : IsBreak(buf[i]) /\ \A j \in 1..(i - 1) : ~IsBreak(buf[j])) - 1
    ELSE Len(buf)

\* what follows the first line and its line ending (\r\n, \r or \n)
AfterLine(buf) ==
    LET n == LineLen(buf)
        e == IF n + 2 <= Len(buf) /\ buf[n + 1] = CR /\ buf[n + 2] = LF THEN 2 ELSE 1
    IN  SubSeq(buf, n + e + 1, Len(buf))

\* the first line with its line ending
WholeLine(buf) == SubSeq(buf, 1, Len(buf) - Len(AfterLine(buf)))

\* the lines of a buffer, their line endings removed (str.splitlines)
RECURSIVE SplitLines(_)
SplitLines(buf) ==
    IF buf = <<>> THEN <<>>
    ELSE <<SubSeq(buf, 1, LineLen(buf))>> \o SplitLines(AfterLine(buf))

\* str.lstrip(" \t")
RECURSIVE LStrip(_)
LStrip(s) == IF s # <<>> /\ IsBlank(Head(s)) THEN LStrip(Tail(s)) ELSE s

\* str.rstrip("\r\n")
RECURSIVE RStripBreaks(_)
RStripBreaks(s) ==
    IF s # <<>> /\ IsBreak(s[Len(s)]) THEN RStripBreaks(SubSeq(s, 1, Len(s) - 1)) ELSE s

\* headerRE of the feed parser: a line is taken for the header when it
\* starts with a blank or has a colon with no blank before it
IsHeaderLine(line) ==
    /\ line # <<>>
    /\ \/ IsBlank(line[1])
       \/ \E i \in 1..Len(line) :
             line[i] = ":" /\ \A j \in 1..(i - 1) : line[j] # ":" /\ ~IsBlank(line[j])

NoField == <<>>

\* header_source_parse: name and value of a field from its first line
FieldStart(raw) ==
    LET c == CHOOSE i \in 1..Len(raw) : raw[i] = ":" /\ \A j \in 1..(i - 1) : raw[j] # ":"
    IN  [name |-> SubSeq(raw, 1, c - 1), value |-> LStrip(SubSeq(raw, c + 1, Len(raw)))]

\* the fields collected so far, the field cur closed
Closed(fields, cur) ==
    IF cur = NoField THEN fields
    ELSE Append(fields, <<cur.name, RStripBreaks(cur.value)>>)

\* FeedParser._parsegen and _parse_headers: the header fields of the buffer
\* and its payload.  The header ends before the first line that is no header
\* line; when that line is blank it is dropped.  A line starting with a blank
\* continues the field before it, and is dropped when there is none; a line
\* starting with a colon is dropped and ends the field before it.
RECURSIVE Parse(_, _, _)
Parse(buf, fields, cur) ==
    LET line == SubSeq(buf, 1, LineLen(buf))
    IN  IF buf = <<>> \/ ~IsHeaderLine(line)
        THEN [fields |-> Closed(fields, cur),
              payload |-> IF buf # <<>> /\ line = <<>> THEN AfterLine(buf) ELSE buf]
        ELSE IF IsBlank(line[1])
        THEN Parse(AfterLine(buf), fields,
                   IF cur = NoField THEN cur ELSE [cur EXCEPT !.value = @ \o WholeLine(buf)])
        ELSE IF line[1] = ":"
        THEN Parse(AfterLine(buf), Closed(fields, cur), NoField)
        ELSE Parse(AfterLine(buf), Closed(fields, cur), FieldStart(WholeLine(buf)))

\* email.message_from_bytes(message).items()
HeaderLines(buf) == Parse(buf, <<>>, NoField).fields

\* the payload of the parsed message
Payload(buf) == Parse(buf, <<>>, NoField).payload

\* Header.encode, end of a line: a single blank that ends the line is dropped
TrimLine(line) ==
    IF /\ line # <<>>
       /\ line[Len(line)] = SP
       /\ (Len(line) = 1 \/ ~IsBlank(line[Len(line) - 1]))
    THEN SubSeq(line, 1, Len(line) - 1)
    ELSE line

\* Header.encode, the lines after the first: an empty line is dropped and a
\* line of blanks is joined to the line before it
RECURSIVE FoldLines(_, _)
FoldLines(out, rest) ==
    IF rest = <<>> THEN out
    ELSE LET t == TrimLine(Head(rest))
         IN  IF t = <<>> THEN FoldLines(out, Tail(rest))
             ELSE IF \A i \in 1..Len(t) : IsBlank(t[i])
             THEN FoldLines([out EXCEPT ![Len(out)] = @ \o t], Tail(rest))
             ELSE FoldLines(Append(out, t), Tail(rest))

RECURSIVE JoinLines(_)
JoinLines(lines) ==
    IF Len(lines) <= 1 THEN (IF lines = <<>> THEN <<>> ELSE Head(lines))
    ELSE Head(lines) \o <<LF>> \o JoinLines(Tail(lines))

\* Header(value).encode(): a value of one line is written as it is
EncodeValue(value) ==
    LET lines == SplitLines(value)
    IN  IF Len(lines) <= 1 THEN value
        ELSE JoinLines(FoldLines(<<TrimLine(Head(lines))>>, Tail(lines)))

\* one header field as the generator writes it: "name: value\n"
FieldBytes(field) == field[1] \o <<":", SP>> \o EncodeValue(field[2]) \o <<LF>>

RECURSIVE JoinFields(_)
JoinFields(fields) ==
    IF fields = <<>> THEN <<>> ELSE FieldBytes(Head(fields)) \o JoinFields(Tail(fields))

\* e = email.message_from_bytes(message); e.set_payload(""); e.as_bytes()
HeaderBytes(buf) == JoinFields(HeaderLines(buf)) \o <<LF>>

\* Generator._write_lines: every line ending of the payload is written as "\n"
RECURSIVE WriteLines(_)
WriteLines(buf) ==
    IF buf = <<>> THEN <<>>
    ELSE SubSeq(buf, 1, LineLen(buf))
         \o (IF LineLen(buf) < Len(buf) THEN <<LF>> ELSE <<>>)
         \o WriteLines(AfterLine(buf))

\* the file written by f[key] = msg: the message read back from its file by
\* get_message and dumped by the generator
Serialised(buf) == JoinFields(HeaderLines(buf)) \o <<LF>> \o WriteLines(Payload(buf))

\* the cryptographic hash, collision free: a tagged copy of its input
Blake2b(b) == <<"blake2b", b>>

\* "get digest of header only"
Digest(buf) == Blake2b(HeaderBytes(buf))

----------------------------------------------------------------------------
(* Mailserver *)

\* the server's answer to BODY[]<offset.size>: the bytes of that range, none
\* when the offset is at or beyond the end of the message; the literal count
\* of the response wrapper is the length of these bytes
FetchData(msg, offset, size) == SubSeq(msg, offset + 1, Min(offset + size, Len(msg)))

\* the generator of Mailserver.partials before its first request
NewPartials == [started |-> FALSE, offset |-> 0, chunksize |-> FIRSTCHUNK, got |-> 0]

\* variant: the generator also returns after a response of the full length
ExhaustedOnFull(p) == p.started /\ p.got <= p.chunksize

\* the generator returns when the last response was shorter than requested
Exhausted(p) == p.started /\ p.got < p.chunksize

\* the request the generator issues when resumed: the first one at offset 0
\* with firstchunk, later ones after "chunksize = nextchunk; offset += chunksize"
NextRequest(p) ==
    IF ~p.started
    THEN [offset |-> 0, chunksize |-> FIRSTCHUNK]
    ELSE [offset |-> p.offset + NEXTCHUNK, chunksize |-> NEXTCHUNK]

\* the generator after the request was answered with data
Resume(p, msg) ==
    LET r == NextRequest(p)
    IN  [started |-> TRUE, offset |-> r.offset, chunksize |-> r.chunksize,
         got |-> Len(FetchData(msg, r.offset, r.chunksize))]

\* the chunk yielded by that resumption
Yielded(p, msg) == FetchData(msg, NextRequest(p).offset, NextRequest(p).chunksize)

\* the UIDs of the messages of a folder
Uids(box) == {u \in 1..Len(box) : box[u] # Expunged}

\* the UIDs the server reports for "UID <uidstart>:*": those in the range, and
\* the highest UID of the folder in any case (n:* always includes *)
SearchUids(box, uidstart) ==
    {u \in Uids(box) : u >= uidstart \/ \A v \in Uids(box) : v <= u}

\* Mailserver.mails: the reported UIDs, in the server's order, that are above uidstart
RECURSIVE Mails(_, _)
Mails(listed, uidstart) ==
    IF listed = <<>> THEN <<>>
    ELSE IF Head(listed) > uidstart
         THEN <<Head(listed)>> \o Mails(Tail(listed), uidstart)
         ELSE Mails(Tail(listed), uidstart)

----------------------------------------------------------------------------
(* The dbm index.  wm and rec are the folder-name keys and the digest keys
   as the process reads them.  dbm.open takes the first backend installed.
   With dbm.dumb the value of a key is read as siz bytes of the data file,
   siz taken from the directory file: a new key is appended to the directory
   file at once, a value written to a key that exists goes over the old
   bytes in the data file, and the directory file is rewritten on close.
   file holds, for the folder-name keys, the bytes dat at the place of the
   value and the size siz in the directory file; dirty is the _modified flag
   of the handle (it is also set when no directory file exists yet: the
   index is empty then and nothing depends on it). *)

EmptyIndex == [wm |-> <<>>, rec |-> <<>>, file |-> <<>>, dirty |-> FALSE]

\* the decimal digits of a UID as the search response and the index hold it
RECURSIVE Digits(_)
Digits(n) == IF n < 10 THEN <<n>> ELSE Digits(n \div 10) \o <<n % 10>>

\* int(...) of decimal digits
RECURSIVE Number(_)
Number(d) == IF d = <<>> THEN 0 ELSE 10 * Number(SubSeq(d, 1, Len(d) - 1)) + d[Len(d)]

\* bytes written over old bytes from their start
Overlay(old, new) == new \o SubSeq(old, Len(new) + 1, Len(old))

\* index.get(folder, 0) converted by int()
IndexGet(ix, f) == IF f \in DOMAIN ix.wm THEN ix.wm[f] ELSE 0

\* index[folder] = uid
SetWatermark(ix, f, v) ==
    [ix EXCEPT !.wm = Put(ix.wm, f, v),
               !.file = Put(ix.file, f,
                            IF f \in DOMAIN ix.file
                            THEN [dat |-> Overlay(ix.file[f].dat, Digits(v)),
                                  siz |-> ix.file[f].siz]
                            ELSE [dat |-> Digits(v), siz |-> Len(Digits(v))]),
               !.dirty = TRUE]

\* index[dgst] = folder + "/" + key, for a digest that is not in the index
SetRecord(ix, d, v) == [ix EXCEPT !.rec = Put(ix.rec, d, v), !.dirty = TRUE]

\* the index with every value written in full and its size on file; the
\* bytes beyond the size are never read again
Synced(ix) ==
    [ix EXCEPT !.file = [f \in DOMAIN ix.wm |->
                            [dat |-> Digits(ix.wm[f]), siz |-> Len(Digits(ix.wm[f]))]],
               !.dirty = FALSE]

\* index.close(): the directory file is rewritten when the handle was modified
CloseIndex(ix) == IF ix.dirty THEN Synced(ix) ELSE ix

\* the index as dbm.dumb reads it from the files a killed process has left
ReadBack(ix) ==
    Synced([ix EXCEPT !.wm = [f \in DOMAIN ix.file |->
                                 Number(SubSeq(ix.file[f].dat, 1, ix.file[f].siz))]])

\* what a kill can leave of the index: every write in full (dbm.gnu,
\* dbm.ndbm), the files of dbm.dumb as they are, and nothing when the kill
\* falls into the close of a modified dbm.dumb handle, between the renaming
\* of the directory file and the writing of the new one
KillOutcomes(ix, closing) ==
    {Synced(ix), ReadBack(ix)} \cup (IF closing /\ ix.dirty THEN {EmptyIndex} ELSE {})

\* dgst in index: the digest keys are shared by all folders
Known(ix, d, f) == d \in DOMAIN ix.rec

----------------------------------------------------------------------------
(* Paths: a path is the sequence of its components, "/" first when it is
   absolute; "./archive/" is <<".", "archive", "">> and "//a" is
   <<"/", "", "a">> *)

\* the working directory of the process and the home directory of its user
Cwd == <<"/", "w">>
Home == <<"/", "h">>

\* the root of an absolute path is "/", or "//" when the path starts with
\* exactly two slashes (which path.normpath keeps)
IsAbs(p) == p # <<>> /\ p[1] \in {"/", "//"}

Root(p) ==
    IF p[1] = "//" THEN "//"
    ELSE IF Len(p) >= 3 /\ p[2] = "" /\ ~(Len(p) >= 4 /\ p[3] = "") THEN "//"
    ELSE "/"

\* path.expanduser
ExpandUser(p) == IF p # <<>> /\ p[1] = "~" THEN Home \o Tail(p) ELSE p

\* path.join(base, p)
PathJoin(base, p) == IF IsAbs(p) THEN p ELSE base \o p

\* path.normpath on the components after the root
RECURSIVE NormPath(_, _)
NormPath(done, rest) ==
    IF rest = <<>> THEN done
    ELSE IF Head(rest) \in {"", "."} THEN NormPath(done, Tail(rest))
    ELSE IF Head(rest) = ".."
    THEN NormPath(IF Len(done) > 1 THEN SubSeq(done, 1, Len(done) - 1) ELSE done, Tail(rest))
    ELSE NormPath(Append(done, Head(rest)), Tail(rest))

\* path.abspath
AbsPath(p) ==
    LET full == IF IsAbs(p) THEN p ELSE Cwd \o p
    IN  NormPath(<<Root(full)>>, Tail(full))

\* join = lambda p, base=".": path.abspath(path.join(base, path.expanduser(p)))
Join(p, base) == AbsPath(PathJoin(base, ExpandUser(p)))

\* the archive option of a section: not set, or set to a path
Absent == [given |-> FALSE, path |-> <<>>]
Given(p) == [given |-> TRUE, path |-> p]

\* self._archive = join(section.get("archive", "./archive"))
ArchivePath(setting) ==
    Join(IF setting.given THEN setting.path ELSE <<".", "archive">>, <<".">>)

----------------------------------------------------------------------------
(* The maildir: the message files under new and cur of the folders of the
   archive, by their keys.  Files under tmp are not messages. *)

\* the unique name Maildir.add gives a new file
NewKey(a) == IF DOMAIN a = {} THEN 1 ELSE SetMax(DOMAIN a) + 1

\* the file Maildir.add has written last
LastKey(a) == SetMax(DOMAIN a)

----------------------------------------------------------------------------
(* State *)

VARIABLES
    remote,       \* server: folder -> messages, the message at position u has UID u
    index,        \* dbm index
    archive,      \* maildir: key -> message file
    pc,           \* position of the program
    incremental,  \* acc.incremental of the running account
    todo,         \* folders of server.ls() not yet processed
    folder,       \* loop variable of "for folder in server.ls()"
    highest,      \* highest = int(index.get(folder, 0))
    cands,        \* UIDs the generator server.mails(...) has still to yield
    uid,          \* loop variable of "for uid in server.mails(...)"
    partials,     \* the generator server.partials(uid)
    message,      \* bytes accumulated for uid
    dgst,         \* header digest of message
    key,          \* key returned by f.add(body) in archive.store
    requests,     \* history: partial fetches issued for uid, with their answers
    hdrreq,       \* history: number of requests when the digest was looked up
    outcome,      \* history: result of the lookup for uid ("none", "dup", "new")
    examined,     \* history: UIDs yielded as candidates in the current folder
    stores,       \* history: calls of archive.store in the current run
    misses,       \* history: lookups of the current run that found no record
    clean,        \* history: runs completed in a row since the last delivery (at most 2,
                  \* and 0 once a run has ended abnormally)
    failed,       \* history: some run ended abnormally
    crashes,      \* history: interruptions so far
    torn,         \* history: an interruption has fallen between an archive write
                  \* and the index write for it
    session,      \* state of server.connection ("NONE", "AUTH", "SELECTED", "LOGOUT")
    mailbox,      \* the folder selected on the connection
    indexopen,    \* the dbm handle is open
    fault,        \* history: the exception that ended the with block ("none" if none)
    section,      \* loop variable of "for section in conf.sections()"
    parked        \* the other configured account: its server, and the archive and
                  \* index at its archive path when that differs from the current one

vars == <<remote, index, archive, pc, incremental, todo, folder, highest, cands, uid,
          partials, message, dgst, key, requests, hdrreq, outcome, examined, stores,
          misses, clean, failed, crashes, torn, session, mailbox, indexopen, fault, section,
          parked>>

locals == <<incremental, todo, folder, highest, cands, uid, partials, message, dgst, key,
            requests, hdrreq, outcome, examined, stores, misses>>

resources == <<session, mailbox, indexopen, fault>>

accounts == <<section, parked>>

NoDigest == <<>>
NoFolder == ""
NoSection == ""

EmptyServer == [f \in FolderSet |-> <<>>]

\* settings.conf with a single section
NoAccount == [name |-> NoSection, remote |-> EmptyServer, index |-> EmptyIndex,
              archive |-> <<>>, setting |-> Absent, current |-> Absent]

\* the message of the current uid on the server
Msg == remote[folder][uid]

Delivered == Len(remote[Folders[1]]) + Len(remote[Folders[2]])

\* archive.store has written the message and index[dgst] is not yet written
InStore == pc \in {"flag", "discard", "rename", "record"}

\* the connection as it is
Connection == [session |-> session, mailbox |-> mailbox]

\* the loop state of a process that has left the folder loop
ResetLoop ==
    /\ incremental' = TRUE
    /\ stores' = 0
    /\ misses' = 0
    /\ todo' = <<>>
    /\ highest' = 0
    /\ cands' = <<>>
    /\ uid' = 0
    /\ partials' = NewPartials
    /\ message' = <<>>
    /\ dgst' = NoDigest
    /\ key' = 0
    /\ requests' = <<>>
    /\ hdrreq' = 0
    /\ outcome' = "none"
    /\ examined' = {}

\* a process that has ended keeps no local state
ResetLocals ==
    /\ folder' = NoFolder
    /\ ResetLoop

\* the state before the first run, for a server content and a second account
InitWith(r, p) ==
    /\ remote = r
    /\ index = EmptyIndex
    /\ archive = <<>>
    /\ pc = "idle"
    /\ incremental = TRUE
    /\ todo = <<>>
    /\ folder = NoFolder
    /\ highest = 0
    /\ cands = <<>>
    /\ uid = 0
    /\ partials = NewPartials
    /\ message = <<>>
    /\ dgst = NoDigest
    /\ key = 0
    /\ requests = <<>>
    /\ hdrreq = 0
    /\ outcome = "none"
    /\ examined = {}
    /\ stores = 0
    /\ misses = 0
    /\ clean = 0
    /\ failed = FALSE
    /\ crashes = 0
    /\ torn = FALSE
    /\ session = "NONE"
    /\ mailbox = NoFolder
    /\ indexopen = FALSE
    /\ fault = "none"
    /\ section = Section
    /\ parked = p

Init == InitWith(EmptyServer, NoAccount)

----------------------------------------------------------------------------
(* Environment *)

\* a message arrives in folder f and gets the next UID.  The engine reads a
\* folder only through the search at the start of its loop and through
\* fetches of UIDs found by it, so arrivals are taken between runs.
Deliver(f, m) ==
    /\ pc = "idle"
    /\ Delivered < MaxMsgs
    /\ remote' = [remote EXCEPT ![f] = Append(@, m)]
    /\ clean' = 0
    /\ UNCHANGED <<index, archive, pc, failed, crashes, torn>>
    /\ UNCHANGED locals
    /\ UNCHANGED resources
    /\ UNCHANGED accounts

\* the process is killed: nothing more is executed.  The message files stay
\* as they are; the index is what its backend has on file.
Crash ==
    /\ pc # "idle"
    /\ crashes < MaxCrashes
    /\ crashes' = crashes + 1
    /\ torn' = (torn \/ InStore)
    /\ index' \in KillOutcomes(index, pc = "exit")
    /\ pc' = "idle"
    /\ failed' = TRUE
    /\ clean' = 0
    /\ ResetLocals
    /\ session' = "NONE"
    /\ mailbox' = NoFolder
    /\ indexopen' = FALSE
    /\ fault' = "none"
    /\ UNCHANGED <<remote, archive>>
    /\ UNCHANGED accounts

----------------------------------------------------------------------------
(* Account: the resources of one section *)

\* the with block of another section: its server answers from now on, and the
\* archive and index opened are those at its archive path
SwitchAccount ==
    LET same == ArchivePath(parked.setting) = ArchivePath(parked.current)
    IN  /\ section' = parked.name
        /\ remote' = parked.remote
        /\ index' = IF same THEN index ELSE parked.index
        /\ archive' = IF same THEN archive ELSE parked.archive
        /\ parked' = [name |-> section, remote |-> remote,
                      index |-> IF same THEN parked.index ELSE index,
                      archive |-> IF same THEN parked.archive ELSE archive,
                      setting |-> parked.current, current |-> parked.setting]

\* Account.__enter__ and server.ls(): the session is logged in, the archive
\* and the index are open and the folders are listed
Enter(inc) ==
    /\ session' = "AUTH"
    /\ mailbox' = NoFolder
    /\ indexopen' = TRUE
    /\ fault' = "none"
    /\ pc' = "folder"
    /\ incremental' = inc
    /\ todo' = Folders
    /\ stores' = 0
    /\ misses' = 0
    /\ UNCHANGED <<folder, highest, cands, uid, partials, message, dgst, key, requests,
                   hdrreq, outcome, examined>>

\* an exception inside the with block while folder f is at work, with the
\* connection left as conn: nothing catches it, the with block is left
Raise(cause, f, conn) ==
    /\ session' = conn.session
    /\ mailbox' = conn.mailbox
    /\ fault' = cause
    /\ pc' = "exit"
    /\ failed' = TRUE
    /\ clean' = 0
    /\ folder' = f
    /\ ResetLoop
    /\ UNCHANGED indexopen

\* Account.__exit__: index.close(); connection.close(); connection.logout().
\* CLOSE is legal only while a folder is selected; otherwise close raises and
\* logout is not reached.  After an exception the program ends.
AccountExit ==
    /\ pc = "exit"
    /\ index' = CloseIndex(index)
    /\ indexopen' = FALSE
    /\ session' = IF session = "SELECTED" THEN "LOGOUT" ELSE session
    /\ mailbox' = NoFolder
    /\ pc' = "end"
    /\ UNCHANGED <<remote, archive, fault, clean, failed, crashes, torn>>
    /\ UNCHANGED locals
    /\ UNCHANGED accounts

----------------------------------------------------------------------------
(* The sync loop of __main__ *)

\* the program starts with the first section:
\* with Account(conf[section]) as (acc, server, archive, index): server.ls()
StartRun(inc) ==
    /\ pc = "idle"
    /\ IF section = Section
       THEN UNCHANGED <<remote, index, archive, section, parked>>
       ELSE SwitchAccount
    /\ Enter(inc)
    /\ UNCHANGED <<clean, failed, crashes, torn>>

\* Account.__enter__ fails after Mailserver(...) has logged in: Maildir(...)
\* or dbm.open raises, __exit__ is not called and the program ends
EnterFault ==
    /\ pc = "idle"
    /\ section = Section
    /\ crashes < MaxCrashes
    /\ crashes' = crashes + 1
    /\ torn' = torn
    /\ session' = "AUTH"
    /\ fault' = "enter"
    /\ pc' = "end"
    /\ failed' = TRUE
    /\ clean' = 0
    /\ UNCHANGED <<remote, index, archive, mailbox, indexopen>>
    /\ UNCHANGED locals
    /\ UNCHANGED accounts

\* the UID the search starts from: highest if acc.incremental else 1
ScanStart(inc, h) == IF inc THEN h ELSE 1

\* variant: a refused select leaves the connection as it was
CdKeep(ok, f, conn) ==
    IF ok THEN [session |-> "SELECTED", mailbox |-> f] ELSE conn

\* server.cd(folder): connection.select(folder, readonly=True), its result
\* ignored; a refused select leaves the connection with no folder selected
Cd(ok, f, conn) ==
    IF ok THEN [session |-> "SELECTED", mailbox |-> f]
    ELSE [session |-> "AUTH", mailbox |-> NoFolder]

\* server.cd(folder) has left the connection as sel: highest = ...;
\* server.mails(...).  The search is a UID command: the connection sends it
\* only while a folder is selected and raises otherwise.
Scan(sel) ==
    IF sel.session = "SELECTED"
    THEN /\ session' = sel.session
         /\ mailbox' = sel.mailbox
         /\ folder' = Head(todo)
         /\ todo' = Tail(todo)
         /\ highest' = IndexGet(index, Head(todo))
         /\ \E listed \in Perms(SearchUids(remote[Head(todo)],
                                           ScanStart(incremental, highest'))) :
               cands' = Mails(listed, ScanStart(incremental, highest'))
         /\ examined' = {}
         /\ pc' = "uid"
         /\ UNCHANGED <<incremental, uid, partials, message, dgst, key, requests,
                        hdrreq, outcome, stores, misses, clean, failed, indexopen, fault>>
    ELSE Raise("select", Head(todo), sel)

\* for folder in server.ls(): server.cd(folder); highest = ...; server.mails(...)
SelectFolder ==
    /\ pc = "folder"
    /\ todo # <<>>
    /\ Scan(Cd(TRUE, Head(todo), Connection))
    /\ UNCHANGED <<remote, index, archive, crashes, torn>>
    /\ UNCHANGED accounts

\* the same with a select that the server refuses
SelectRefused ==
    /\ pc = "folder"
    /\ todo # <<>>
    /\ crashes < MaxCrashes
    /\ crashes' = crashes + 1
    /\ torn' = torn
    /\ Scan(Cd(FALSE, Head(todo), Connection))
    /\ UNCHANGED <<remote, index, archive>>
    /\ UNCHANGED accounts

\* the folder loop is over: the with block is left
FinishRun ==
    /\ pc = "folder"
    /\ todo = <<>>
    /\ pc' = "exit"
    /\ ResetLocals
    /\ UNCHANGED <<remote, index, archive, clean, failed, crashes, torn>>
    /\ UNCHANGED resources
    /\ UNCHANGED accounts

\* for section in conf.sections(): the with block of the next section
NextSection(inc) ==
    /\ pc = "end"
    /\ fault = "none"
    /\ section = Section
    /\ parked.name # NoSection
    /\ SwitchAccount
    /\ Enter(inc)
    /\ UNCHANGED <<clean, failed, crashes, torn>>

\* no section is left, or an exception has left the loop: the program ends
ProgramEnd ==
    /\ pc = "end"
    /\ fault # "none" \/ section # Section \/ parked.name = NoSection
    /\ pc' = "idle"
    /\ clean' = IF failed THEN 0 ELSE Min(clean + 1, 2)
    /\ session' = "NONE"
    /\ mailbox' = NoFolder
    /\ indexopen' = FALSE
    /\ fault' = "none"
    /\ folder' = NoFolder
    /\ UNCHANGED <<remote, index, archive, incremental, todo, highest, cands, uid, partials,
                   message, dgst, key, requests, hdrreq, outcome, examined, stores, misses,
                   failed, crashes, torn>>
    /\ UNCHANGED accounts

\* for uid in server.mails(...): partials = server.partials(uid)
NextUid ==
    /\ pc = "uid"
    /\ cands # <<>>
    /\ uid' = Head(cands)
    /\ cands' = Tail(cands)
    /\ partials' = NewPartials
    /\ requests' = <<>>
    /\ outcome' = "none"
    /\ examined' = examined \cup {Head(cands)}
    /\ pc' = "first"
    /\ UNCHANGED <<remote, index, archive, incremental, todo, folder, highest, message,
                   dgst, key, hdrreq, stores, misses, clean, failed, crashes, torn>>
    /\ UNCHANGED resources
    /\ UNCHANGED accounts

\* the generator of candidates is exhausted: on to the next folder
FolderDone ==
    /\ pc = "uid"
    /\ cands = <<>>
    /\ pc' = "folder"
    /\ UNCHANGED <<remote, index, archive, clean, failed, crashes, torn>>
    /\ UNCHANGED locals
    /\ UNCHANGED resources
    /\ UNCHANGED accounts

\* the generator server.mails is resumed and the search response cannot be
\* read (no data, or a token that is no number): uids[0].split() or int(uid)
\* raises
SearchFault ==
    /\ pc = "uid"
    /\ crashes < MaxCrashes
    /\ crashes' = crashes + 1
    /\ torn' = torn
    /\ Raise("search", folder, Connection)
    /\ UNCHANGED <<remote, index, archive>>
    /\ UNCHANGED accounts

\* next(partials): one partial fetch, logged with its answer
Fetched ==
    /\ partials' = Resume(partials, Msg)
    /\ requests' = Append(requests, [offset |-> NextRequest(partials).offset,
                                     size |-> NextRequest(partials).chunksize,
                                     data |-> Yielded(partials, Msg)])

\* a partial fetch is about to be issued
FetchDue ==
    \/ pc = "first"
    \/ pc = "header" /\ ~HasTerminator(message) /\ ~Exhausted(partials)
    \/ pc = "drain" /\ ~Exhausted(partials)

\* the answer to a partial fetch cannot be read (no data for the UID, or a
\* wrapper without literal size): the unpacking or int(...) in partials raises
FetchFault ==
    /\ FetchDue
    /\ crashes < MaxCrashes
    /\ crashes' = crashes + 1
    /\ torn' = torn
    /\ Raise("fetch", folder, Connection)
    /\ UNCHANGED <<remote, index, archive>>
    /\ UNCHANGED accounts

\* message = next(partials)
FirstChunk ==
    /\ pc = "first"
    /\ Fetched
    /\ message' = Yielded(partials, Msg)
    /\ pc' = "header"
    /\ UNCHANGED <<remote, index, archive, incremental, todo, folder, highest, cands, uid,
                   dgst, key, hdrreq, outcome, examined, stores, misses, clean, failed, crashes, torn>>
    /\ UNCHANGED resources
    /\ UNCHANGED accounts

\* while not (terminator in message): message += next(partials)
HeaderMore ==
    /\ pc = "header"
    /\ ~HasTerminator(message)
    /\ ~Exhausted(partials)
    /\ Fetched
    /\ message' = message \o Yielded(partials, Msg)
    /\ UNCHANGED <<remote, index, archive, pc, incremental, todo, folder, highest, cands,
                   uid, dgst, key, hdrreq, outcome, examined, stores, misses, clean, failed, crashes, torn>>
    /\ UNCHANGED resources
    /\ UNCHANGED accounts

\* next(partials) on the exhausted generator raises StopIteration, which
\* nothing catches: the with block is left and the program ends
HeaderStop ==
    /\ pc = "header"
    /\ ~HasTerminator(message)
    /\ Exhausted(partials)
    /\ Raise("malformed", folder, Connection)
    /\ UNCHANGED <<remote, index, archive, crashes, torn>>
    /\ UNCHANGED accounts

\* variant: the remaining chunks are fetched whether or not the digest is known
AfterLookupDrain(found) == "drain"

\* if dgst in index: next uid; else: assemble the full message
AfterLookup(found) == IF found THEN "uid" ELSE "drain"

\* dgst = Blake2b(e.as_bytes()); if dgst in index: ... else: ...
Lookup ==
    /\ pc = "header"
    /\ HasTerminator(message)
    /\ dgst' = Digest(message)
    /\ hdrreq' = Len(requests)
    /\ IF Known(index, Digest(message), folder)
       THEN /\ outcome' = "dup"
            /\ misses' = misses
       ELSE /\ outcome' = "new"
            /\ misses' = misses + 1
    /\ pc' = AfterLookup(Known(index, Digest(message), folder))
    /\ UNCHANGED <<remote, index, archive, incremental, todo, folder, highest, cands, uid,
                   partials, message, key, requests, examined, stores, clean, failed, crashes, torn>>
    /\ UNCHANGED resources
    /\ UNCHANGED accounts

\* for part in partials: message += part
Drain ==
    /\ pc = "drain"
    /\ ~Exhausted(partials)
    /\ Fetched
    /\ message' = message \o Yielded(partials, Msg)
    /\ UNCHANGED <<remote, index, archive, pc, incremental, todo, folder, highest, cands,
                   uid, dgst, key, hdrreq, outcome, examined, stores, misses, clean, failed, crashes, torn>>
    /\ UNCHANGED resources
    /\ UNCHANGED accounts

\* Maildir.store: key = f.add(body) writes the bytes to a file under new
StoreAdd ==
    /\ pc = "drain"
    /\ Exhausted(partials)
    /\ archive' = Put(archive, NewKey(archive),
                      [ns |-> <<section, folder>>, body |-> message, cur |-> FALSE])
    /\ key' = NewKey(archive)
    /\ stores' = stores + 1
    /\ pc' = "flag"
    /\ UNCHANGED <<remote, index, incremental, todo, folder, highest, cands, uid, partials,
                   message, dgst, requests, hdrreq, outcome, examined, misses, clean, failed, crashes, torn>>
    /\ UNCHANGED resources
    /\ UNCHANGED accounts

\* Maildir.store: msg = f.get_message(key) parses the file; flag S and subdir
\* cur are set on msg; f[key] = msg begins with self.add(msg), which dumps
\* msg to a second file, under cur and with the flag
StoreFlag ==
    /\ pc = "flag"
    /\ archive' = Put(archive, NewKey(archive),
                      [ns |-> archive[key].ns, body |-> Serialised(archive[key].body),
                       cur |-> TRUE])
    /\ pc' = "discard"
    /\ UNCHANGED <<remote, index, incremental, todo, folder, highest, cands, uid, partials,
                   message, dgst, key, requests, hdrreq, outcome, examined, stores, misses,
                   clean, failed, crashes, torn>>
    /\ UNCHANGED resources
    /\ UNCHANGED accounts

\* f[key] = msg goes on with self.discard(key): the file under new is removed
StoreDiscard ==
    /\ pc = "discard"
    /\ archive' = Remove(archive, key)
    /\ pc' = "rename"
    /\ UNCHANGED <<remote, index, incremental, todo, folder, highest, cands, uid, partials,
                   message, dgst, key, requests, hdrreq, outcome, examined, stores, misses,
                   clean, failed, crashes, torn>>
    /\ UNCHANGED resources
    /\ UNCHANGED accounts

\* f[key] = msg ends with the renaming of the second file to the key;
\* return key
StoreRename ==
    /\ pc = "rename"
    /\ archive' = Put(Remove(archive, LastKey(archive)), key, archive[LastKey(archive)])
    /\ pc' = "record"
    /\ UNCHANGED <<remote, index, incremental, todo, folder, highest, cands, uid, partials,
                   message, dgst, key, requests, hdrreq, outcome, examined, stores, misses,
                   clean, failed, crashes, torn>>
    /\ UNCHANGED resources
    /\ UNCHANGED accounts

\* archive.store raises: in f.add before anything is written, or in a later
\* call with the message files left as they are
StoreFault ==
    /\ (pc = "drain" /\ Exhausted(partials)) \/ pc \in {"flag", "discard", "rename"}
    /\ crashes < MaxCrashes
    /\ crashes' = crashes + 1
    /\ torn' = (torn \/ InStore)
    /\ Raise("store", folder, Connection)
    /\ UNCHANGED <<remote, index, archive>>
    /\ UNCHANGED accounts

\* variant: the record is written once the message file exists, before
\* archive.store has returned
RecordEarly ==
    /\ pc = "flag"
    /\ index' = SetRecord(index, dgst, <<folder, key>>)
    /\ pc' = "watermark"
    /\ UNCHANGED <<remote, archive, incremental, todo, folder, highest, cands, uid, partials,
                   message, dgst, key, requests, hdrreq, outcome, examined, stores, misses,
                   clean, failed, crashes, torn>>
    /\ UNCHANGED resources
    /\ UNCHANGED accounts

\* index[dgst] = folder + "/" + key
Record ==
    /\ pc = "record"
    /\ index' = SetRecord(index, dgst, <<folder, key>>)
    /\ pc' = "watermark"
    /\ UNCHANGED <<remote, archive, incremental, todo, folder, highest, cands, uid, partials,
                   message, dgst, key, requests, hdrreq, outcome, examined, stores, misses,
                   clean, failed, crashes, torn>>
    /\ UNCHANGED resources
    /\ UNCHANGED accounts

\* if int(uid) > highest: index[folder] = uid
SaveHighest ==
    /\ pc = "watermark"
    /\ index' = IF uid > highest THEN SetWatermark(index, folder, uid) ELSE index
    /\ pc' = "uid"
    /\ UNCHANGED <<remote, archive, incremental, todo, folder, highest, cands, uid, partials,
                   message, dgst, key, requests, hdrreq, outcome, examined, stores, misses,
                   clean, failed, crashes, torn>>
    /\ UNCHANGED resources
    /\ UNCHANGED accounts

Next ==
    \/ \E f \in FolderSet, m \in Catalog : Deliver(f, m)
    \/ \E inc \in BOOLEAN : StartRun(inc)
    \/ SelectFolder
    \/ FinishRun
    \/ AccountExit
    \/ ProgramEnd
    \/ NextUid
    \/ FolderDone
    \/ FirstChunk
    \/ HeaderMore
    \/ Lookup
    \/ Drain
    \/ StoreAdd
    \/ StoreFlag
    \/ StoreDiscard
    \/ StoreRename
    \/ Record
    \/ SaveHighest
    \/ HeaderStop

Spec == Init /\ [][Next]_vars

----------------------------------------------------------------------------
(* Runs that are interrupted: kills, and failures of the environment that
   raise an exception, over servers whose content does not change *)

\* the content of the first folder; in the last one the UIDs 1 to 8 are gone and the
\* messages have the UIDs 9 and 10
FaultBoxes ==
    {<<>>, <<MsgSmall>>, <<MsgLarge>>, <<MsgCrlf>>, <<MsgBad>>,
     <<MsgSmall, MsgCrlf>>, <<MsgSmall, MsgLarge>>, <<MsgCrlf, MsgCrlf>>,
     <<Expunged, Expunged, Expunged, Expunged, Expunged, Expunged, Expunged, Expunged,
       MsgBlank, MsgCrlf>>}

\* the content of the second folder
FaultBoxesNext == {<<>>, <<MsgSmall>>, <<MsgCrlf>>}

InitFaults ==
    \E b1 \in FaultBoxes, b2 \in FaultBoxesNext :
       InitWith([f \in FolderSet |-> IF f = Folders[1] THEN b1 ELSE b2], NoAccount)

NextFaults ==
    \/ Crash
    \/ \E inc \in BOOLEAN : StartRun(inc)
    \/ SelectFolder
    \/ FinishRun
    \/ AccountExit
    \/ ProgramEnd
    \/ NextUid
    \/ FolderDone
    \/ FirstChunk
    \/ HeaderMore
    \/ Lookup
    \/ Drain
    \/ StoreAdd
    \/ StoreFlag
    \/ StoreDiscard
    \/ StoreRename
    \/ Record
    \/ SaveHighest
    \/ EnterFault
    \/ SelectRefused
    \/ SearchFault
    \/ FetchFault
    \/ HeaderStop
    \/ StoreFault

SpecFaults == InitFaults /\ [][NextFaults]_vars

----------------------------------------------------------------------------
(* Two configured accounts, processed one after the other by one run *)

\* the second section of settings.conf
Section2 == "acc2"

\* what a section can say about its archive: nothing, "archive",
\* "/w/archive/" and "~/archive"
ArchiveSettings ==
    {Absent, Given(<<"archive">>), Given(<<"/", "w", "archive", "">>), Given(<<"~", "archive">>)}

\* the INBOX of an account; its other folder is empty
AccountBoxes == {<<>>, <<MsgSmall>>, <<MsgCrlf>>, <<MsgSmall, MsgCrlf>>, <<MsgLarge, MsgCrlf>>}

ServerWith(box) == [f \in FolderSet |-> IF f = Folders[1] THEN box ELSE <<>>]

InitAccounts ==
    \E b1 \in AccountBoxes, b2 \in AccountBoxes, a1 \in ArchiveSettings, a2 \in ArchiveSettings :
       InitWith(ServerWith(b1),
                [name |-> Section2, remote |-> ServerWith(b2), index |-> EmptyIndex,
                 archive |-> <<>>, setting |-> a2, current |-> a1])

NextAccounts ==
    \/ \E inc \in BOOLEAN : StartRun(inc)
    \/ SelectFolder
    \/ FinishRun
    \/ AccountExit
    \/ ProgramEnd
    \/ NextUid
    \/ FolderDone
    \/ FirstChunk
    \/ HeaderMore
    \/ Lookup
    \/ Drain
    \/ StoreAdd
    \/ StoreFlag
    \/ StoreDiscard
    \/ StoreRename
    \/ Record
    \/ SaveHighest
    \/ \E inc \in BOOLEAN : NextSection(inc)

SpecAccounts == InitAccounts /\ [][NextAccounts]_vars

----------------------------------------------------------------------------
(* One account whose INBOX holds two messages with long or equal headers *)

\* two header fields, the second one straddling the first chunk
MsgTwo  == <<"a", ":", LF, "b", "b", ":", LF, LF>>
\* the same header of FIRSTCHUNK bytes before its blank line, different bodies
MsgGapX == <<"a", "b", "c", ":", LF, LF, "x", ":", LF, LF>>
MsgGapY == <<"a", "b", "c", ":", LF, LF, "y", ":", LF, LF>>
MsgGapZ == <<"a", "b", "c", ":", LF, LF, "z">>
\* a header field with a continuation line
MsgFold == <<"a", ":", LF, SP, "x", LF, LF, LF>>
IdentityCatalog ==
    {MsgSmall, MsgLarge, MsgCrlf, MsgBlank, MsgTwo, MsgGapX, MsgGapY, MsgGapZ, MsgFold}

InitIdentity ==
    \E m1 \in IdentityCatalog, m2 \in IdentityCatalog :
       InitWith(ServerWith(<<m1, m2>>), NoAccount)

NextIdentity ==
    \/ \E inc \in BOOLEAN : StartRun(inc)
    \/ SelectFolder
    \/ FinishRun
    \/ AccountExit
    \/ ProgramEnd
    \/ NextUid
    \/ FolderDone
    \/ FirstChunk
    \/ HeaderMore
    \/ Lookup
    \/ Drain
    \/ StoreAdd
    \/ StoreFlag
    \/ StoreDiscard
    \/ StoreRename
    \/ Record
    \/ SaveHighest
    \/ HeaderStop

SpecIdentity == InitIdentity /\ [][NextIdentity]_vars

----------------------------------------------------------------------------
(* Properties *)

\* the bytes received by the first n requests for the current uid
RECURSIVE Received(_, _)
Received(reqs, n) == IF n = 0 THEN <<>> ELSE Received(reqs, n - 1) \o reqs[n].data

\* the loop over the candidates of a folder is at work on uid
AtUid ==
    /\ pc \in {"first", "header", "drain", "flag", "discard", "rename", "record",
               "watermark", "uid"}
    /\ uid \in examined

\* a folder's loop has ended normally and the next folder is not yet selected
AtFolderEnd == pc = "folder" /\ folder # NoFolder

\* archived copies of the message msg, identified by its header digest
Copies(msg) == {k \in DOMAIN archive : Digest(archive[k].body) = Digest(msg)}

\* C1: after two runs in a row over an unchanged server, with no failure
\* ever, every remote message has exactly one archived copy; and during a
\* run that follows a completed run over the same server content every
\* lookup finds its record and archive.store is not called
C1_RerunIdempotent ==
    /\ (pc = "idle" /\ clean = 2 /\ ~failed) =>
          \A f \in FolderSet : \A u \in Uids(remote[f]) :
             Cardinality(Copies(remote[f][u])) = 1
    /\ (pc # "idle" /\ clean >= 1 /\ ~failed) => (stores = 0 /\ misses = 0)

\* C2: every Dedup Record belongs to a message whose archive.store has
\* completed: it names an archive entry of its folder that is filed under
\* cur and whose header digest is the record's key
C2_ArchiveBeforeIndex ==
    \A d \in DOMAIN index.rec :
       LET k == index.rec[d][2]
       IN  /\ k \in DOMAIN archive
           /\ archive[k].cur
           /\ archive[k].ns = <<Section, index.rec[d][1]>>
           /\ Digest(archive[k].body) = d

\* a store has returned and its record is not yet written, in a run after an
\* interruption, with older records in the index
C2_Witness == pc = "record" /\ crashes > 0 /\ DOMAIN index.rec # {}

\* C3: the bytes handed to archive.store are the full remote message
C3_ArchivedComplete == pc = "flag" => archive[key].body = Msg

\* C4: the first request is at offset 0 and every later request starts where
\* the previous one ended
C4_Coverage ==
    \A i \in 1..Len(requests) :
       requests[i].offset = IF i = 1 THEN 0 ELSE requests[i - 1].offset + requests[i - 1].size

\* C5: the first request asks for firstchunk bytes and every later one for
\* nextchunk; every request but the last was answered in full; a reader that
\* was read to its end stopped on a short answer; and the number of requests
\* is bounded by the length of the message
C5_ChunkSizes ==
    /\ \A i \in 1..Len(requests) :
          requests[i].size = IF i = 1 THEN FIRSTCHUNK ELSE NEXTCHUNK
    /\ \A i \in 1..(Len(requests) - 1) : Len(requests[i].data) = requests[i].size
    /\ InStore \/ pc = "watermark" =>
          Len(requests[Len(requests)].data) < requests[Len(requests)].size
    /\ (AtUid /\ Len(requests) >= 2) =>
          FIRSTCHUNK + (Len(requests) - 2) * NEXTCHUNK <= Len(Msg)

\* a message of three chunks was read to its end
C5_Witness == pc = "flag" /\ Len(requests) = 3

\* C6: when a folder's loop ends normally the Watermark Record of the folder
\* is the highest candidate UID of the run
C6_WatermarkIsMax ==
    (AtFolderEnd /\ examined # {}) => IndexGet(index, folder) = SetMax(examined)

\* C7: no step lowers a folder's Watermark Record
C7_WatermarkMonotone ==
    [][\A f \in FolderSet : IndexGet(index', f) >= IndexGet(index, f)]_vars

\* C8: every remote message at or below the Watermark Record of its folder
\* has a Dedup Record
C8_ResumePoint ==
    \A f \in FolderSet : \A u \in Uids(remote[f]) :
       u <= IndexGet(index, f) => Digest(remote[f][u]) \in DOMAIN index.rec

\* C9: a non-incremental run examines every message of the folder, and when
\* it archives nothing the watermark is what it was
C9_FullRescan ==
    (AtFolderEnd /\ ~incremental) =>
       /\ examined = Uids(remote[folder])
       /\ stores = 0 => IndexGet(index, folder) = highest

\* C10: once a message is found in the index no further request is issued
\* for it, and the requests made were needed: before the last one the buffer
\* held no header terminator
C10_DuplicateNotDrained ==
    outcome = "dup" =>
       /\ Len(requests) = hdrreq
       /\ ~HasTerminator(Received(requests, Len(requests) - 1))
       /\ pc \in {"uid", "folder", "first"}

\* a duplicate longer than the first chunk was recognised: its reader is not
\* exhausted and is abandoned
C10_Witness ==
    /\ outcome = "dup"
    /\ pc = "uid"
    /\ ~Exhausted(partials)
    /\ Len(Msg) > FIRSTCHUNK

\* C11: a candidate whose reader is exhausted before its bytes hold a header
\* terminator is skipped: the step taken then changes neither archive nor
\* index and leaves the loop at the next candidate, with the remaining
\* candidates and folders still to be processed
C11_MalformedSkipped ==
    [][(pc = "header" /\ ~HasTerminator(message) /\ Exhausted(partials) /\ crashes' = crashes)
          => /\ pc' = "uid"
             /\ cands' = cands
             /\ todo' = todo
             /\ index' = index
             /\ archive' = archive]_vars

\* the candidates of a run in mode inc over folder f with the index ix
Candidates(ix, f, inc) ==
    {u \in SearchUids(remote[f], ScanStart(inc, IndexGet(ix, f))) :
        u > ScanStart(inc, IndexGet(ix, f))}

\* C12: when archive.store fails for a UID the index is left as it was, with
\* no Dedup Record for the digest, and the UID is a candidate of the next run
C12_StoreFailureRetried ==
    [][(fault' = "store" /\ fault = "none")
          => /\ index' = index
             /\ dgst \notin DOMAIN index'.rec
             /\ uid \in Candidates(index', folder, incremental)]_vars

\* C13: a response that cannot be read aborts the folder at work only: the
\* step leaves the program at the folder loop with the remaining folders
\* still to be processed
C13_ProtocolErrorFolderScoped ==
    [][(fault' \in {"search", "fetch"} /\ fault = "none") => (pc' = "folder" /\ todo' = todo)]_vars

\* a header terminator ends at position i of buf
EndsTerminator(buf, i) ==
    \/ i >= 2 /\ buf[i - 1] = LF /\ buf[i] = LF
    \/ i >= 4 /\ buf[i - 3] = CR /\ buf[i - 2] = LF /\ buf[i - 1] = CR /\ buf[i] = LF

\* the header bytes of a message: up to the end of its first header terminator
HeaderPart(buf) ==
    SubSeq(buf, 1, CHOOSE i \in 1..Len(buf) :
                      EndsTerminator(buf, i) /\ \A j \in 1..(i - 1) : ~EndsTerminator(buf, j))

\* C14: the decision for the second message of a folder, taken after the
\* first one has been processed, depends on the headers only: it is a
\* duplicate when the header bytes of the two are the same, whatever their
\* bodies, and it is new when their header fields differ
C14_IdentityByHeader ==
    (AtUid /\ uid = 2 /\ 1 \in examined /\ outcome # "none") =>
       /\ HeaderPart(remote[folder][1]) = HeaderPart(remote[folder][2]) => outcome = "dup"
       /\ HeaderLines(remote[folder][1]) # HeaderLines(remote[folder][2]) => outcome = "new"

\* C15: the Watermark Record is persisted after each candidate: were the run
\* interrupted now, the next incremental run would yield none of the
\* candidates already completed, the one in flight at most
C15_WatermarkPerUid ==
    AtUid =>
       \A u \in examined \ (IF pc = "uid" THEN {} ELSE {uid}) :
          u \notin Candidates(index, folder, TRUE)

\* C16: whenever the processing of an account has ended, by completion or by
\* an exception, the index handle is closed and the session is logged out
C16_GuaranteedRelease == pc = "end" => (~indexopen /\ session = "LOGOUT")

\* C17: while the candidates of a folder are searched and fetched the session
\* has a folder selected, and it is the folder at work
C17_SelectedFolder ==
    (pc \in {"uid", "first", "header", "drain", "watermark"} \/ InStore) =>
       (session = "SELECTED" /\ mailbox = folder)

\* the select of the second folder was refused, after the first folder had
\* been selected and processed: the program ends without a search
C17_Witness == pc = "end" /\ fault = "select" /\ folder = Folders[2]

\* C18: each candidate handled by the loop is greater than those handled
\* before it in the same folder
C18_IncreasingOrder == pc = "first" => \A u \in examined : u <= uid

\* C19: in the first run over two accounts the second account, which has
\* never been synchronised, scans each of its folders from watermark 0
C19_AccountIsolation ==
    (section = Section2 /\ pc = "uid" /\ clean = 0 /\ ~failed) => highest = 0

\* C20: as long as no interruption has fallen between an archive write and
\* its index write, a step that stores a message stores one whose header
\* digest no archived message has, and no step overwrites or deletes a Dedup
\* Record
C20_SingleArchival ==
    [][~torn' =>
          /\ (pc = "drain" /\ pc' = "flag") =>
                \A k \in DOMAIN archive : Digest(archive[k].body) # Digest(message)
          /\ index'.rec # index.rec =>
                \A d \in DOMAIN index.rec :
                   d \in DOMAIN index'.rec /\ index'.rec[d] = index.rec[d]]_vars

====
